---- MODULE Spec2Model ----
(***************************************************************************)
(* Day-window budget engine of 16dollars (utils/time.ts) and the home      *)
(* screen state that drives it (screens/HomeScreen.tsx).                   *)
(*                                                                         *)
(* Representation.                                                         *)
(*  - A Date is an integer: seconds of local wall-clock time since the     *)
(*    local midnight of day 0.  The local calendar has no DST change, so   *)
(*    a calendar day is DaySecs seconds and setDate(getDate() +- 1) moves  *)
(*    an instant by DaySecs.  Milliseconds are not represented: all code   *)
(*    paths that cut a Date down cut it to a minute or compare instants.   *)
(*  - A string is a sequence of one-character strings.                     *)
(*  - A JavaScript number that may be NaN is a record [nan, v].            *)
(*  - hoursBetween returns a number of hours; here it is kept exact as     *)
(*    the number of seconds (hours * 3600).  round2 returns a number with  *)
(*    two decimals; here it is the integer number of hundredths.           *)
(***************************************************************************)
EXTENDS Integers, Sequences, FiniteSets, TLC

\* ------------------------------------------------------------------ bounds
\* longest string handed to normalizeTime
MaxStrLen == 5
\* longest activity list held by storage
MaxList == 2
\* activities handed to onSave in one run
MaxSaves == 1
\* calendar days the clock of the home screen runs over: 1 .. MaxDay
MaxDay == 2
\* calendar days activity instants are drawn from: 0 .. MaxActDay
MaxActDay == 2

\* ------------------------------------------------------- program constants
\* 24 * 60 * 60 * 1000 ms, in seconds
DaySecs == 86400
\* 1000 * 60 * 60 ms, in seconds
HourSecs == 3600
MinuteSecs == 60

\* ------------------------------------------------------------ JS numbers
Num(n) == [nan |-> FALSE, v |-> n]
NaN == [nan |-> TRUE, v |-> 0]
\* a * 60 + b
Mins(a, b) == IF a.nan \/ b.nan THEN NaN ELSE Num(a.v * 60 + b.v)
\* a < b, false when either side is NaN
NumLt(a, b) == ~a.nan /\ ~b.nan /\ a.v < b.v
\* a >= b, false when either side is NaN
NumGe(a, b) == ~a.nan /\ ~b.nan /\ a.v >= b.v

\* --------------------------------------------------------------- strings
DigitChars == <<"0", "1", "2", "3", "4", "5", "6", "7", "8", "9">>
IsDigit(c) == \E i \in 1..10 : DigitChars[i] = c
DigitVal(c) == (CHOOSE i \in 1..10 : DigitChars[i] = c) - 1
AllDigits(s) == \A i \in 1..Len(s) : IsDigit(s[i])

RECURSIVE DecimalValue(_)
DecimalValue(s) ==
    IF Len(s) = 0 THEN 0
    ELSE 10 * DecimalValue(SubSeq(s, 1, Len(s) - 1)) + DigitVal(s[Len(s)])

\* parseInt(s, 10) of a string the regular expression has matched as digits
parseInt(s) == DecimalValue(s)

\* Number(s): the empty string is 0, a digit string its value, else NaN
Number(s) == IF AllDigits(s) THEN Num(DecimalValue(s)) ELSE NaN

\* n.toString().padStart(2, '0') for 0 <= n <= 99
padStart2(n) ==
    IF n < 10 THEN <<"0", DigitChars[n + 1]>>
    ELSE <<DigitChars[(n \div 10) + 1], DigitChars[(n % 10) + 1]>>

\* s.split(':'): the pieces between the colons
RECURSIVE split(_)
split(s) ==
    IF \A i \in 1..Len(s) : s[i] # ":" THEN <<s>>
    ELSE LET k == CHOOSE i \in 1..Len(s) :
                      s[i] = ":" /\ \A j \in 1..(i - 1) : s[j] # ":"
         IN  <<SubSeq(s, 1, k - 1)>> \o split(SubSeq(s, k + 1, Len(s)))

\* const [a, b] = s.split(':').map(Number): a missing piece is undefined,
\* and undefined in arithmetic is NaN
splitNumber(s) ==
    LET parts == split(s)
    IN  [h |-> Number(parts[1]),
         m |-> IF Len(parts) >= 2 THEN Number(parts[2]) ELSE NaN]

\* /^(\d{1,2}):(\d{2})$/
matchTime(s) ==
    /\ Len(s) \in {4, 5}
    /\ s[Len(s) - 2] = ":"
    /\ \A i \in 1..Len(s) : i # Len(s) - 2 => IsDigit(s[i])

\* normalizeTime without the range check on hours and minutes
normalizeTime_noRange(time) ==
    IF ~matchTime(time) THEN <<"0", "0", ":", "0", "0">>
    ELSE LET hours == parseInt(SubSeq(time, 1, Len(time) - 3))
             minutes == parseInt(SubSeq(time, Len(time) - 1, Len(time)))
         IN  padStart2(hours) \o <<":">> \o padStart2(minutes)

normalizeTime(time) ==
    IF ~matchTime(time) THEN <<"0", "0", ":", "0", "0">>
    ELSE LET hours == parseInt(SubSeq(time, 1, Len(time) - 3))
             minutes == parseInt(SubSeq(time, Len(time) - 1, Len(time)))
         IN  IF hours < 0 \/ hours > 23 \/ minutes < 0 \/ minutes > 59
             THEN <<"0", "0", ":", "0", "0">>
             ELSE padStart2(hours) \o <<":">> \o padStart2(minutes)

\* ----------------------------------------------------------------- dates
getDay(d) == d \div DaySecs
getHours(d) == (d % DaySecs) \div HourSecs
getMinutes(d) == (d % HourSecs) \div MinuteSecs
\* new Date(year, month, day, h, m, 0, 0)
newDate(day, h, m) == day * DaySecs + h * HourSecs + m * MinuteSecs
\* d.setDate(d.getDate() + k)
addDays(d, k) == d + k * DaySecs

\* toDateWithTime keeping the seconds of base
toDateWithTime_keepSeconds(base, hhmm) ==
    LET normalized == normalizeTime(hhmm)
        h == parseInt(SubSeq(normalized, 1, 2))
        m == parseInt(SubSeq(normalized, 4, 5))
    IN  newDate(getDay(base), h, m) + (base % MinuteSecs)

toDateWithTime(base, hhmm) ==
    LET normalized == normalizeTime(hhmm)
        h == parseInt(SubSeq(normalized, 1, 2))
        m == parseInt(SubSeq(normalized, 4, 5))
    IN  newDate(getDay(base), h, m)

\* isInSleepWindow with the wake bound of the same-day case inclusive
isInSleepWindow_wakeInclusive(now, settings) ==
    LET bed == splitNumber(settings.bedtime)
        wake == splitNumber(settings.wakeTime)
        nowMins == Num(getHours(now) * 60 + getMinutes(now))
        bedMins == Mins(bed.h, bed.m)
        wakeMins == Mins(wake.h, wake.m)
    IN  IF NumLt(bedMins, wakeMins)
        THEN NumGe(nowMins, bedMins) /\ NumGe(wakeMins, nowMins)
        ELSE NumGe(nowMins, bedMins) \/ NumLt(nowMins, wakeMins)

\* isInSleepWindow with the bedtime bound exclusive
isInSleepWindow_bedExclusive(now, settings) ==
    LET bed == splitNumber(settings.bedtime)
        wake == splitNumber(settings.wakeTime)
        nowMins == Num(getHours(now) * 60 + getMinutes(now))
        bedMins == Mins(bed.h, bed.m)
        wakeMins == Mins(wake.h, wake.m)
    IN  IF NumLt(bedMins, wakeMins)
        THEN NumLt(bedMins, nowMins) /\ NumLt(nowMins, wakeMins)
        ELSE NumLt(bedMins, nowMins) \/ NumLt(nowMins, wakeMins)

\* isInSleepWindow without the case of a night that crosses midnight
isInSleepWindow_noCrossing(now, settings) ==
    LET bed == splitNumber(settings.bedtime)
        wake == splitNumber(settings.wakeTime)
        nowMins == Num(getHours(now) * 60 + getMinutes(now))
        bedMins == Mins(bed.h, bed.m)
        wakeMins == Mins(wake.h, wake.m)
    IN  NumGe(nowMins, bedMins) /\ NumLt(nowMins, wakeMins)

isInSleepWindow(now, settings) ==
    LET bed == splitNumber(settings.bedtime)
        wake == splitNumber(settings.wakeTime)
        nowMins == Num(getHours(now) * 60 + getMinutes(now))
        bedMins == Mins(bed.h, bed.m)
        wakeMins == Mins(wake.h, wake.m)
    IN  IF NumLt(bedMins, wakeMins)
        THEN NumGe(nowMins, bedMins) /\ NumLt(nowMins, wakeMins)
        ELSE NumGe(nowMins, bedMins) \/ NumLt(nowMins, wakeMins)

\* getMostRecentWake with now > todayWake
getMostRecentWake_strict(now, settings) ==
    LET todayWake == toDateWithTime(now, settings.wakeTime)
    IN  IF now > todayWake THEN todayWake
        ELSE toDateWithTime(addDays(now, -1), settings.wakeTime)

\* getMostRecentWake that never steps back to yesterday
getMostRecentWake_today(now, settings) ==
    toDateWithTime(now, settings.wakeTime)

getMostRecentWake(now, settings) ==
    LET todayWake == toDateWithTime(now, settings.wakeTime)
    IN  IF now >= todayWake THEN todayWake
        ELSE toDateWithTime(addDays(now, -1), settings.wakeTime)

\* getMostRecentBedtime with now > todayBed
getMostRecentBedtime_strict(now, settings) ==
    LET todayBed == toDateWithTime(now, settings.bedtime)
    IN  IF now > todayBed THEN todayBed
        ELSE toDateWithTime(addDays(now, -1), settings.bedtime)

getMostRecentBedtime(now, settings) ==
    LET todayBed == toDateWithTime(now, settings.bedtime)
    IN  IF now >= todayBed THEN todayBed
        ELSE toDateWithTime(addDays(now, -1), settings.bedtime)

\* getNextBedtime comparing the hour of now only
getNextBedtime_hourOnly(now, settings) ==
    LET bed == splitNumber(settings.bedtime)
        bedMins == Mins(bed.h, bed.m)
        nowMins == Num(getHours(now) * 60)
    IN  IF NumLt(nowMins, bedMins) THEN toDateWithTime(now, settings.bedtime)
        ELSE toDateWithTime(addDays(now, 1), settings.bedtime)

\* getNextBedtime with nowMins <= bedMins
getNextBedtime_inclusive(now, settings) ==
    LET bed == splitNumber(settings.bedtime)
        bedMins == Mins(bed.h, bed.m)
        nowMins == Num(getHours(now) * 60 + getMinutes(now))
    IN  IF NumGe(bedMins, nowMins) THEN toDateWithTime(now, settings.bedtime)
        ELSE toDateWithTime(addDays(now, 1), settings.bedtime)

getNextBedtime(now, settings) ==
    LET bed == splitNumber(settings.bedtime)
        bedMins == Mins(bed.h, bed.m)
        nowMins == Num(getHours(now) * 60 + getMinutes(now))
    IN  IF NumLt(nowMins, bedMins) THEN toDateWithTime(now, settings.bedtime)
        ELSE toDateWithTime(addDays(now, 1), settings.bedtime)

\* getDayWindow from the most recent wake to the first bedtime after it
getDayWindow_fromWake(now, settings) ==
    LET start == getMostRecentWake(now, settings)
        sameDayBed == toDateWithTime(start, settings.bedtime)
    IN  [start |-> start,
         end |-> IF sameDayBed > start THEN sameDayBed
                 ELSE toDateWithTime(addDays(start, 1), settings.bedtime)]

getDayWindow(now, settings) ==
    [start |-> getMostRecentBedtime(now, settings),
     end |-> getNextBedtime(now, settings)]

\* (end - start) / (1000 * 60 * 60), kept as seconds
hoursBetween(start, end) == end - start

max0(x) == IF x >= 0 THEN x ELSE 0

\* Math.round(n * 100) / 100 for n = secs / 3600 hours, as the set of
\* hundredths the double arithmetic can give: n * 100 = secs / 36 is
\* rounded to the nearest integer, and when secs / 36 lies exactly on a
\* half the double product may fall on either side of it (1.005 * 100 is
\* 100.49999999999999), so both neighbours are possible results.
round2(secs) ==
    IF secs % 36 = 18 THEN {secs \div 36, (secs \div 36) + 1}
    ELSE {(secs + 18) \div 36}

\* computeRemainingDollars as 16 minus the hours since the last wake
computeRemainingDollars_fromWake(now, settings) ==
    LET lastWake == getMostRecentWake(now, settings)
        hours == max0(hoursBetween(lastWake, now))
    IN  round2(max0(16 * HourSecs - hours))

computeRemainingDollars(now, settings) ==
    LET nextBed == getNextBedtime(now, settings)
        hoursUntilBed == max0(hoursBetween(now, nextBed))
    IN  round2(hoursUntilBed)

\* computeSpentDollars counting from the most recent bedtime
computeSpentDollars_fromBedtime(now, settings) ==
    LET lastBed == getMostRecentBedtime(now, settings)
        hoursSinceBed == max0(hoursBetween(lastBed, now))
    IN  round2(hoursSinceBed)

computeSpentDollars(now, settings) ==
    LET lastWake == getMostRecentWake(now, settings)
        hoursSinceWake == max0(hoursBetween(lastWake, now))
    IN  round2(hoursSinceWake)

\* ------------------------------------------------------------ activities
\* An ISO timestamp (Date.toISOString) names an instant by its calendar
\* fields; it is kept as the record of those fields.
toISOString(d) ==
    [day |-> getDay(d), h |-> getHours(d), m |-> getMinutes(d),
     s |-> d % MinuteSecs]
\* new Date(iso)
parseISO(iso) == newDate(iso.day, iso.h, iso.m) + iso.s

\* durationHoursAcrossMidnight without the 24 hour correction
durationHoursAcrossMidnight_noWrap(startIso, endIso) ==
    hoursBetween(parseISO(startIso), parseISO(endIso))

\* durationHoursAcrossMidnight correcting when end <= start
durationHoursAcrossMidnight_wrapOnEqual(startIso, endIso) ==
    LET start == parseISO(startIso)
        end0 == parseISO(endIso)
        end == IF end0 <= start THEN end0 + DaySecs ELSE end0
    IN  hoursBetween(start, end)

durationHoursAcrossMidnight(startIso, endIso) ==
    LET start == parseISO(startIso)
        end0 == parseISO(endIso)
        end == IF end0 < start THEN end0 + DaySecs ELSE end0
    IN  hoursBetween(start, end)

\* overlapsDayWindow with e >= dayStart
overlapsDayWindow_closed(startIso, endIso, dayStart, dayEnd) ==
    LET s == parseISO(startIso)
        e0 == parseISO(endIso)
        e == IF e0 < s THEN e0 + DaySecs ELSE e0
    IN  s < dayEnd /\ e >= dayStart

overlapsDayWindow(startIso, endIso, dayStart, dayEnd) ==
    LET s == parseISO(startIso)
        e0 == parseISO(endIso)
        e == IF e0 < s THEN e0 + DaySecs ELSE e0
    IN  s < dayEnd /\ e > dayStart

\* ------------------------------------------------------------ input sets
T0000 == <<"0", "0", ":", "0", "0">>
T0700 == <<"0", "7", ":", "0", "0">>
T700 == <<"7", ":", "0", "0">>
T1000 == <<"1", "0", ":", "0", "0">>
T1100 == <<"1", "1", ":", "0", "0">>
T2230 == <<"2", "2", ":", "3", "0">>
T2300 == <<"2", "3", ":", "0", "0">>
T2310 == <<"2", "3", ":", "1", "0">>

\* bedtimes and wake times the settings screen can have stored
BedTimes == {T2300, T2310, T2230, T0000, T1000, T0700}
WakeTimes == {T0700, T700, T1100, T0000}
SettingsPool == [bedtime : BedTimes, wakeTime : WakeTimes]
\* useState<UserSettings>({ bedtime: '23:00', wakeTime: '07:00' })
DefaultSettings == [bedtime |-> T2300, wakeTime |-> T0700]

\* minutes of the day the clock is read at: around every bedtime and wake
\* time of the pool, one hour either side of them, and 02:00 and 09:30
PoolMinutes == {0, 420, 600, 660, 1350, 1380}
ClockMinutes ==
    {(m + d) % 1440 : m \in PoolMinutes, d \in {-60, -1, 0, 1, 60}}
        \cup {120, 570}
\* seconds within the minute the clock is read at
ClockSeconds == {0, 1, 18, 59}
ClockInstants ==
    {day * DaySecs + m * MinuteSecs + s :
        day \in 1..MaxDay, m \in ClockMinutes, s \in ClockSeconds}

\* instants an activity can start or end at
ActTimes == {<<0, 15, 0>>, <<22, 30, 0>>, <<22, 45, 0>>, <<23, 0, 0>>,
             <<23, 30, 0>>}
ActIsos ==
    {[day |-> d, h |-> t[1], m |-> t[2], s |-> t[3]] :
        d \in 0..MaxActDay, t \in ActTimes}
\* day-window boundaries the overlap test is asked about
WindowInstants == {newDate(d, 23, 0) : d \in 0..MaxActDay}

\* strings handed to normalizeTime: every string of at most MaxStrLen
\* characters over digits that give hours and minutes in and out of range,
\* the colon and a letter
Alphabet == {"0", "2", "5", "7", ":", "x"}
RECURSIVE StringsOfLen(_)
StringsOfLen(n) ==
    IF n = 0 THEN {<<>>}
    ELSE {Append(str, c) : str \in StringsOfLen(n - 1), c \in Alphabet}
StringPool == UNION {StringsOfLen(n) : n \in 0..MaxStrLen}

\* ------------------------------------------------------- time references
\* n.toString() for n >= 0
RECURSIVE numToString(_)
numToString(n) ==
    IF n < 10 THEN <<DigitChars[n + 1]>>
    ELSE numToString(n \div 10) \o <<DigitChars[(n % 10) + 1]>>

\* formatTime12h showing hour 0 as 0
formatTime12h_zeroHour(date) ==
    LET hours == getHours(date)
        minutes == getMinutes(date)
        ampm == IF hours >= 12 THEN <<"p", "m">> ELSE <<"a", "m">>
        minStr == IF minutes < 10 THEN <<"0">> \o numToString(minutes)
                  ELSE numToString(minutes)
    IN  numToString(hours % 12) \o <<":">> \o minStr \o ampm

formatTime12h(date) ==
    LET hours == getHours(date)
        minutes == getMinutes(date)
        ampm == IF hours >= 12 THEN <<"p", "m">> ELSE <<"a", "m">>
        hours12 == IF hours % 12 = 0 THEN 12 ELSE hours % 12
        minStr == IF minutes < 10 THEN <<"0">> \o numToString(minutes)
                  ELSE numToString(minutes)
    IN  numToString(hours12) \o <<":">> \o minStr \o ampm

\* resolveTimeReference keeping an offset within one day
resolveTimeReference_clamped(r, s, base) ==
    CASE r.type = "bedtime" -> toDateWithTime(base, s.bedtime)
      [] r.type = "wakeTime" -> toDateWithTime(base, s.wakeTime)
      [] r.type = "offset" ->
            toDateWithTime(base, s.wakeTime)
                + (r.minutes % 1440) * MinuteSecs

resolveTimeReference(r, s, base) ==
    CASE r.type = "bedtime" -> toDateWithTime(base, s.bedtime)
      [] r.type = "wakeTime" -> toDateWithTime(base, s.wakeTime)
      [] r.type = "offset" ->
            LET wakeDate == toDateWithTime(base, s.wakeTime)
            IN  wakeDate + r.minutes * MinuteSecs

\* formatTimeReference(ref, settings); temp is its const tempBase = new Date()
formatTimeReference(r, s, temp) ==
    CASE r.type = "bedtime" -> formatTime12h(toDateWithTime(temp, s.bedtime))
      [] r.type = "wakeTime" ->
            formatTime12h(toDateWithTime(temp, s.wakeTime))
      [] r.type = "offset" ->
            LET wakeDate == toDateWithTime(temp, s.wakeTime)
                offsetDate == wakeDate + r.minutes * MinuteSecs
            IN  formatTime12h(offsetDate)

\* TimeReference values: the two anchors and offsets from the wake time,
\* negative, within a day and beyond a day
OffsetMinutes == {-1500, -60, 0, 50, 90, 1500}
RefPool ==
    {[type |-> "bedtime", minutes |-> 0], [type |-> "wakeTime", minutes |-> 0]}
        \cup {[type |-> "offset", minutes |-> m] : m \in OffsetMinutes}
\* anchor dates, at different times of their day
AnchorInstants ==
    {newDate(day, 0, 0) : day \in 1..MaxDay}
        \cup {newDate(day, 23, 0) : day \in 1..MaxDay}
        \cup {newDate(day, 15, 30) + 7 : day \in 1..MaxDay}

\* ------------------------------------------------------- today's list
\* An Activity is [id, categoryType, startTime, endTime, cost]; cost is a
\* number of hours, kept exact as hours * 3600 like hoursBetween.

\* the filter callback of todaysActivities without the 24 hour correction
overlapsToday_noWrap(a, window) ==
    LET s == parseISO(a.startTime)
        e == parseISO(a.endTime)
    IN  s < window.end /\ e > window.start

\* the filter callback of todaysActivities
overlapsToday(a, window) ==
    LET s == parseISO(a.startTime)
        e0 == parseISO(a.endTime)
        e == IF e0 < s THEN e0 + DaySecs ELSE e0
    IN  s < window.end /\ e > window.start

\* Array.prototype.filter
RECURSIVE filterToday(_, _)
filterToday(list, window) ==
    IF Len(list) = 0 THEN <<>>
    ELSE (IF overlapsToday(Head(list), window) THEN <<Head(list)>> ELSE <<>>)
             \o filterToday(Tail(list), window)

\* the sort callback of the earlier HomeScreen: a.startTime - b.startTime
compareOldestFirst(a, b) == parseISO(a.startTime) - parseISO(b.startTime)

\* the sort callback: b.startTime - a.startTime
compareNewestFirst(a, b) == parseISO(b.startTime) - parseISO(a.startTime)

\* x put into a list already in order, behind every entry the callback does
\* not place after it (Array.prototype.sort is stable)
RECURSIVE insertSorted(_, _)
insertSorted(x, list) ==
    IF Len(list) = 0 THEN <<x>>
    ELSE IF compareNewestFirst(Head(list), x) <= 0
         THEN <<Head(list)>> \o insertSorted(x, Tail(list))
         ELSE <<x>> \o list

\* Array.prototype.sort with the callback
RECURSIVE sortList(_)
sortList(list) ==
    IF Len(list) = 0 THEN <<>>
    ELSE insertSorted(list[Len(list)], sortList(SubSeq(list, 1, Len(list) - 1)))

todaysActivitiesOf(list, window) == sortList(filterToday(list, window))

CategoryTypes == {"good", "bad", "selfcare"}
\* categoryTotals that adds 1 per activity instead of its cost
RECURSIVE categoryTotalsOf_count(_)
categoryTotalsOf_count(list) ==
    IF Len(list) = 0 THEN [c \in CategoryTypes |-> 0]
    ELSE LET acc == categoryTotalsOf_count(SubSeq(list, 1, Len(list) - 1))
             activity == list[Len(list)]
         IN  [acc EXCEPT ![activity.categoryType] = @ + 1]

\* todaysActivities.reduce(acc[categoryType] += cost, {good: 0, bad: 0,
\* selfcare: 0})
RECURSIVE categoryTotalsOf(_)
categoryTotalsOf(list) ==
    IF Len(list) = 0 THEN [c \in CategoryTypes |-> 0]
    ELSE LET acc == categoryTotalsOf(SubSeq(list, 1, Len(list) - 1))
             activity == list[Len(list)]
         IN  [acc EXCEPT ![activity.categoryType] = @ + activity.cost]

Iso(day, h, m) == [day |-> day, h |-> h, m |-> m, s |-> 0]
Activity(id, cat, startTime, endTime) ==
    [id |-> id, categoryType |-> cat, startTime |-> startTime,
     endTime |-> endTime,
     cost |-> durationHoursAcrossMidnight(startTime, endTime)]
\* activities storage can hold: inside a day, across a bedtime, ending at a
\* bedtime, starting at a bedtime, with the end before the start, and two
\* with the same start
ActivityPool ==
    {Activity("a1", "good", Iso(1, 9, 0), Iso(1, 10, 0)),
     Activity("a2", "bad", Iso(1, 22, 45), Iso(1, 23, 30)),
     Activity("a3", "selfcare", Iso(1, 22, 0), Iso(1, 23, 0)),
     Activity("a4", "good", Iso(1, 23, 0), Iso(2, 0, 15)),
     Activity("a5", "bad", Iso(2, 22, 30), Iso(2, 0, 15)),
     Activity("a6", "selfcare", Iso(1, 9, 0), Iso(1, 9, 30))}
RECURSIVE ListsOfLen(_)
ListsOfLen(n) ==
    IF n = 0 THEN {<<>>}
    ELSE {Append(l, a) : l \in ListsOfLen(n - 1), a \in ActivityPool}
HasDistinctIds(l) ==
    \A i, j \in 1..Len(l) : i # j => l[i].id # l[j].id
StoredLists ==
    {l \in UNION {ListsOfLen(n) : n \in 0..MaxList} : HasDistinctIds(l)}
ListSettings == {DefaultSettings, [bedtime |-> T0000, wakeTime |-> T0700]}
ListInstants ==
    {newDate(day, t[1], t[2]) :
        day \in 1..MaxDay, t \in {<<9, 30>>, <<23, 30>>}}

\* ------------------------------------------------------ activity modal
\* setTime(base, hours, minutes): base's date at hours:minutes:00
setTime(base, hours, minutes) == newDate(getDay(base), hours, minutes)

\* ids of activities made in a run, `${Date.now()}-${random}`: never one
\* that storage already holds
NewIds == <<"n1", "n2", "n3", "n4">>
newId(list) == NewIds[Len(list) + 1]

\* the activities handleQuickAction can hand to onSave for quick action q
quickActivity(q, s, base, id) ==
    LET startDate == resolveTimeReference(q.startTime, s, base)
        end0 == resolveTimeReference(q.endTime, s, base)
        endDate == IF end0 < startDate THEN end0 + DaySecs ELSE end0
    IN  {[id |-> id, categoryType |-> q.categoryType,
          startTime |-> toISOString(startDate),
          endTime |-> toISOString(endDate),
          cost |-> durationHoursAcrossMidnight(toISOString(startDate),
                                               toISOString(endDate))]}

\* handleSave of the modal without the 24 hour correction of the end
manualActivity_noWrap(init, start, end, id) ==
    {[id |-> IF init # <<>> THEN init.id ELSE id,
      categoryType |-> IF init # <<>> THEN init.categoryType ELSE "good",
      startTime |-> toISOString(start),
      endTime |-> toISOString(end),
      cost |-> 36 * h] :
        h \in round2(durationHoursAcrossMidnight(toISOString(start),
                                                 toISOString(end)))}

\* the activities handleSave of the modal can hand to onSave; cost is the
\* useMemo over the form's start and end, Math.round(c * 100) / 100. The
\* template, and with it the category, stays the one chosen on opening.
manualActivity(init, start, end, id) ==
    LET endAdj == IF end < start THEN end + DaySecs ELSE end
    IN  {[id |-> IF init # <<>> THEN init.id ELSE id,
          categoryType |-> IF init # <<>> THEN init.categoryType ELSE "good",
          startTime |-> toISOString(start),
          endTime |-> toISOString(endAdj),
          cost |-> 36 * h] :
            h \in round2(durationHoursAcrossMidnight(toISOString(start),
                                                     toISOString(end)))}

\* storage.addActivity
addActivity(list, a) == Append(list, a)
\* updateActivity that drops the entry and appends the new one
updateActivity_moveToEnd(list, a) ==
    IF \E i \in 1..Len(list) : list[i].id = a.id
    THEN SelectSeq(list, LAMBDA x : x.id # a.id) \o <<a>>
    ELSE list

\* storage.updateActivity
updateActivity(list, a) ==
    [i \in 1..Len(list) |-> IF list[i].id = a.id THEN a ELSE list[i]]

QuickAction(cat, startTime, endTime) ==
    [categoryType |-> cat, startTime |-> startTime, endTime |-> endTime]
Offset(m) == [type |-> "offset", minutes |-> m]
\* quick actions the stored settings can hold
QuickActionPool ==
    {QuickAction("good", [type |-> "wakeTime", minutes |-> 0], Offset(50)),
     QuickAction("selfcare", [type |-> "bedtime", minutes |-> 0],
                 [type |-> "wakeTime", minutes |-> 0]),
     QuickAction("selfcare", Offset(-480), [type |-> "wakeTime", minutes |-> 0]),
     QuickAction("bad", [type |-> "wakeTime", minutes |-> 0], Offset(1500)),
     QuickAction("good", Offset(60), Offset(120)),
     QuickAction("bad", [type |-> "wakeTime", minutes |-> 0], Offset(-1500))}
\* times of day the pickers of the form are set to
PickTimes == {<<9, 0>>, <<9, 50>>, <<22, 30>>}
\* lists storage holds when the screen opens
ModalLists == {l \in StoredLists : Len(l) < MaxList}
\* instants the modal is used at
ModalInstants == {newDate(day, 9, 30) : day \in 1..MaxDay}

\* ------------------------------------------------- dates from strings
\* SettingsScreen dateToHHmm(d)
dateToHHmm(d) == padStart2(getHours(d)) \o <<":">> \o padStart2(getMinutes(d))

T2359 == <<"2", "3", ":", "5", "9">>
T905 == <<"9", ":", "0", "5">>
\* wall-clock strings handed to toDateWithTime, well formed and not
DateStrings ==
    {T0000, T0700, T700, T905, T2230, T2359,
     <<"2", "5", ":", "0", "0">>, <<"7", ":", "5">>, <<"a", "b", "c">>}
\* base dates, at different times of their day
DateInstants ==
    {newDate(day, t[1], t[2]) + t[3] :
        day \in 1..MaxDay,
        t \in {<<0, 0, 0>>, <<7, 5, 0>>, <<15, 30, 7>>, <<23, 59, 59>>}}

\* ------------------------------------------------------------- storage
\* storage.deleteActivity: list.filter((a) => a.id !== id)
RECURSIVE deleteActivity(_, _)
deleteActivity(list, id) ==
    IF Len(list) = 0 THEN <<>>
    ELSE (IF Head(list).id # id THEN <<Head(list)>> ELSE <<>>)
             \o deleteActivity(Tail(list), id)

\* whether list.findIndex((a) => a.id === id) is >= 0
hasId(list, id) == \E i \in 1..Len(list) : list[i].id = id

\* Reset Today: allActivities.filter(activityStart < todaysStart)
RECURSIVE resetToday(_, _)
resetToday(list, todaysStart) ==
    IF Len(list) = 0 THEN <<>>
    ELSE (IF parseISO(Head(list).startTime) < todaysStart
          THEN <<Head(list)>> ELSE <<>>)
             \o resetToday(Tail(list), todaysStart)

\* the list a storage call writes after having loaded list, for the
\* handlers of the home screen: handleSave of a new activity, handleSave of
\* an edited one, handleDelete, Reset Today
written(op, arg, list, todaysStart) ==
    CASE op = "add" -> addActivity(list, arg)
      [] op = "update" -> updateActivity(list, arg)
      [] op = "delete" -> deleteActivity(list, arg)
      [] op = "reset" -> resetToday(list, todaysStart)

\* the handlers that can be running at once
Callers == {"first", "second"}
NoCall == [op |-> "none", arg |-> <<>>, pc |-> "idle", list |-> <<>>]
\* activities storage holds at the start: inside a day, across a bedtime,
\* starting at a bedtime
StoragePool ==
    {Activity("a1", "good", Iso(1, 9, 0), Iso(1, 10, 0)),
     Activity("a2", "bad", Iso(1, 22, 45), Iso(1, 23, 30)),
     Activity("a4", "good", Iso(1, 23, 0), Iso(2, 0, 15))}
StorageLists ==
    {l \in StoredLists :
        Len(l) < MaxList /\ \A i \in 1..Len(l) : l[i] \in StoragePool}
\* activities the modal hands over as new
AddPool ==
    {Activity("n1", "selfcare", Iso(1, 22, 0), Iso(1, 23, 0)),
     Activity("n2", "selfcare", Iso(1, 9, 0), Iso(1, 9, 30))}
\* activities the modal hands over as edited: the id kept, the end moved
UpdatePool ==
    {Activity(a.id, a.categoryType, a.startTime,
              toISOString(parseISO(a.endTime) + HourSecs)) :
        a \in StoragePool}
StorageIds == {a.id : a \in StoragePool}
StorageInstants == {newDate(1, 9, 30), newDate(1, 23, 30)}

\* malformed wall-clock strings a corrupted settings record can hold:
\* hours out of range, minutes of one digit, no number at all
T2500 == <<"2", "5", ":", "0", "0">>
T7_5 == <<"7", ":", "5">>
Tabc == <<"a", "b", "c">>
RawBedTimes == {T0000, T2300, T2500, T7_5, Tabc}
RawWakeTimes == {T0000, T0700, T2500, T7_5, Tabc}
RawSettingsPool == [bedtime : RawBedTimes, wakeTime : RawWakeTimes]
\* instants the clock is read at while such settings are in use
RawInstants ==
    {newDate(day, t[1], t[2]) + t[3] :
        day \in 1..MaxDay,
        t \in {<<0, 0, 0>>, <<2, 0, 0>>, <<7, 5, 0>>, <<9, 30, 0>>,
               <<23, 0, 30>>}}

\* ----------------------------------------------------------------- state
VARIABLES
    now,        \* HomeScreen: useState<Date> now
    settings,   \* HomeScreen: useState<UserSettings> settings
    sleeping,   \* HomeScreen: useMemo isInSleepWindow(now, settings)
    remaining,  \* HomeScreen: useMemo computeRemainingDollars, hundredths
    spent,      \* HomeScreen: useMemo computeSpentDollars, hundredths
    dayWindow,  \* HomeScreen: useMemo getDayWindow(now, settings)
    startIso,   \* an activity's startTime
    endIso,     \* an activity's endTime
    dayStart,   \* window start handed to overlapsDayWindow
    dayEnd,     \* window end handed to overlapsDayWindow
    pc,         \* which function has been applied to the activity
    duration,   \* result of durationHoursAcrossMidnight, seconds
    overlaps    \* result of overlapsDayWindow

VARIABLES
    timeStr,          \* argument of normalizeTime
    normalized,       \* normalizeTime(timeStr)
    renormalized,     \* normalizeTime(normalized)
    ref,              \* a TimeReference of a quick action
    baseDay,          \* anchor date handed to resolveTimeReference
    tempBase,         \* formatTimeReference: new Date()
    resolved,         \* result of resolveTimeReference
    label,            \* result of formatTimeReference
    activities,       \* HomeScreen: useState<Activity[]> activities
    todaysActivities, \* HomeScreen: useMemo todaysActivities
    visible,          \* HomeScreen: modalVisible
    initial,          \* ActivityModal: the activity being edited, or none
    formStart,        \* ActivityModal: useState<Date> start
    formEnd,          \* ActivityModal: useState<Date> end
    saved,            \* the activity last handed to onSave, or none
    action,           \* the quick action last pressed, or none
    saves             \* how many activities were handed to onSave

VARIABLES
    categoryTotals,   \* HomeScreen: useMemo categoryTotals
    dateBase,         \* toDateWithTime: base
    dateStr,          \* toDateWithTime: hhmm
    dateAnchor,       \* a second base, for the way back
    dateMade,         \* toDateWithTime(dateBase, dateStr)
    dateText,         \* dateToHHmm(dateMade)
    dateRemade,       \* toDateWithTime(dateAnchor, normalizeTime(dateText))
    storedActivities, \* AsyncStorage: the list under KEYS.activities
    storedSettings,   \* AsyncStorage: the record under KEYS.settings, or none
    calls             \* the storage calls in flight, one per caller

screenVars == <<now, settings, sleeping, remaining, spent, dayWindow>>
activityVars == <<startIso, endIso, dayStart, dayEnd, pc, duration, overlaps>>
stringVars == <<timeStr, normalized, renormalized>>
refVars == <<ref, baseDay, tempBase, resolved, label>>
listVars == <<activities, todaysActivities, categoryTotals>>
dateVars == <<dateBase, dateStr, dateAnchor, dateMade, dateText, dateRemade>>
storageVars == <<storedActivities, storedSettings, calls>>
modalVars == <<visible, initial, formStart, formEnd, saved, action, saves>>
vars == <<now, settings, sleeping, remaining, spent, dayWindow,
          startIso, endIso, dayStart, dayEnd, pc, duration, overlaps,
          timeStr, normalized, renormalized,
          ref, baseDay, tempBase, resolved, label,
          activities, todaysActivities,
          visible, initial, formStart, formEnd, saved, action, saves,
          categoryTotals,
          dateBase, dateStr, dateAnchor, dateMade, dateText, dateRemade,
          storedActivities, storedSettings, calls>>

\* the memoised values of one render of the home screen for (n, s)
Render(n, s, sl, rem, sp, dw) ==
    /\ sl = isInSleepWindow(n, s)
    /\ rem \in computeRemainingDollars(n, s)
    /\ sp \in computeSpentDollars(n, s)
    /\ dw = getDayWindow(n, s)

NoActivity ==
    /\ startIso = toISOString(0)
    /\ endIso = toISOString(0)
    /\ dayStart = 0
    /\ dayEnd = 0
    /\ pc = "none"
    /\ duration = 0
    /\ overlaps = FALSE

\* nothing has been handed to normalizeTime
NoString ==
    /\ timeStr = <<>>
    /\ normalized = <<>>
    /\ renormalized = <<>>

\* no time reference is being resolved
NoReference ==
    /\ ref = [type |-> "bedtime", minutes |-> 0]
    /\ baseDay = 0
    /\ tempBase = 0
    /\ resolved = 0
    /\ label = <<>>

\* useState<Activity[]>([]): nothing loaded, nothing shown
NoList ==
    /\ activities = <<>>
    /\ todaysActivities = <<>>
    /\ categoryTotals = categoryTotalsOf(<<>>)

\* nothing has been handed to toDateWithTime
NoDate ==
    /\ dateBase = 0
    /\ dateStr = <<>>
    /\ dateAnchor = 0
    /\ dateMade = 0
    /\ dateText = <<>>
    /\ dateRemade = 0

\* storage is empty and no call is in flight
NoStorage ==
    /\ storedActivities = <<>>
    /\ storedSettings = <<>>
    /\ calls = <<>>

\* the activity modal is closed and has handed nothing over
NoModal ==
    /\ visible = FALSE
    /\ initial = <<>>
    /\ formStart = 0
    /\ formEnd = 0
    /\ saved = <<>>
    /\ action = <<>>
    /\ saves = 0

\* the home screen mounts: default settings, the clock is read
Init ==
    /\ now \in ClockInstants
    /\ settings = DefaultSettings
    /\ Render(now, settings, sleeping, remaining, spent, dayWindow)
    /\ NoActivity
    /\ NoString
    /\ NoDate
    /\ NoStorage
    /\ NoReference
    /\ NoList
    /\ NoModal

\* setInterval(() => setNow(new Date()), 36_000): the clock has advanced,
\* by at most an hour since the last reading
Tick ==
    /\ \E t \in ClockInstants : t > now /\ t <= now + HourSecs /\ now' = t
    /\ settings' = settings
    /\ Render(now', settings', sleeping', remaining', spent', dayWindow')
    /\ UNCHANGED activityVars
    /\ UNCHANGED <<stringVars, dateVars, storageVars, refVars, listVars, modalVars>>

\* refresh(): settings are loaded from storage and set, and the effect on
\* [settings] reads the clock again, in the same second or the next one
Refresh ==
    /\ settings' \in SettingsPool
    /\ \E t \in ClockInstants : t >= now /\ t <= now + 1 /\ now' = t
    /\ Render(now', settings', sleeping', remaining', spent', dayWindow')
    /\ UNCHANGED activityVars
    /\ UNCHANGED <<stringVars, dateVars, storageVars, refVars, listVars, modalVars>>

Next == Tick \/ Refresh

Spec == Init /\ [][Next]_vars

\* ------------------------------------- the activity functions on their own
InitActivity ==
    /\ now = newDate(1, 0, 0)
    /\ settings = DefaultSettings
    /\ Render(now, settings, sleeping, remaining, spent, dayWindow)
    /\ startIso \in ActIsos
    /\ endIso \in ActIsos
    /\ dayStart \in WindowInstants
    /\ dayEnd \in WindowInstants
    /\ pc = "none"
    /\ duration = 0
    /\ overlaps = FALSE
    /\ NoString
    /\ NoDate
    /\ NoStorage
    /\ NoReference
    /\ NoList
    /\ NoModal

CallDuration ==
    /\ pc = "none"
    /\ duration' = durationHoursAcrossMidnight(startIso, endIso)
    /\ pc' = "duration"
    /\ UNCHANGED <<startIso, endIso, dayStart, dayEnd, overlaps>>
    /\ UNCHANGED screenVars
    /\ UNCHANGED <<stringVars, dateVars, storageVars, refVars, listVars, modalVars>>

CallOverlaps ==
    /\ pc = "none"
    /\ overlaps' = overlapsDayWindow(startIso, endIso, dayStart, dayEnd)
    /\ pc' = "overlaps"
    /\ UNCHANGED <<startIso, endIso, dayStart, dayEnd, duration>>
    /\ UNCHANGED screenVars
    /\ UNCHANGED <<stringVars, dateVars, storageVars, refVars, listVars, modalVars>>

NextActivity == CallDuration \/ CallOverlaps

SpecActivity == InitActivity /\ [][NextActivity]_vars

\* ------------------------------- the home screen over malformed settings
InitRaw ==
    /\ now \in RawInstants
    /\ settings = DefaultSettings
    /\ Render(now, settings, sleeping, remaining, spent, dayWindow)
    /\ NoActivity
    /\ NoString
    /\ NoDate
    /\ NoStorage
    /\ NoReference
    /\ NoList
    /\ NoModal

\* setInterval(() => setNow(new Date()), 36_000)
RawTick ==
    /\ \E t \in RawInstants : t > now /\ now' = t
    /\ settings' = settings
    /\ Render(now', settings', sleeping', remaining', spent', dayWindow')
    /\ UNCHANGED activityVars
    /\ UNCHANGED <<stringVars, dateVars, storageVars, refVars, listVars, modalVars>>

\* refresh(): loadSettings returns whatever JSON.parse gives for the stored
\* record, its bedtime and wakeTime strings unchecked; the effect on
\* [settings] reads the clock again in the same second
RawRefresh ==
    /\ settings' \in RawSettingsPool
    /\ now' = now
    /\ Render(now', settings', sleeping', remaining', spent', dayWindow')
    /\ UNCHANGED activityVars
    /\ UNCHANGED <<stringVars, dateVars, storageVars, refVars, listVars, modalVars>>

NextRaw == RawTick \/ RawRefresh

SpecRaw == InitRaw /\ [][NextRaw]_vars

\* ------------------------------------------- the home screen and its list
InitList ==
    /\ now \in ListInstants
    /\ settings \in ListSettings
    /\ Render(now, settings, sleeping, remaining, spent, dayWindow)
    /\ NoActivity
    /\ NoString
    /\ NoDate
    /\ NoStorage
    /\ NoReference
    /\ NoList
    /\ NoModal

\* refresh(): loadActivities returns the stored list, the stored settings
\* are set again, and the screen renders in the same second
ListRefresh ==
    /\ activities' \in StoredLists
    /\ UNCHANGED screenVars
    /\ todaysActivities' = todaysActivitiesOf(activities', dayWindow')
    /\ categoryTotals' = categoryTotalsOf(todaysActivities')
    /\ UNCHANGED <<activityVars, stringVars, dateVars, storageVars, refVars, modalVars>>

\* setInterval(() => setNow(new Date()), 36_000)
ListTick ==
    /\ \E t \in ListInstants : t > now /\ now' = t
    /\ settings' = settings
    /\ Render(now', settings', sleeping', remaining', spent', dayWindow')
    /\ activities' = activities
    /\ todaysActivities' = todaysActivitiesOf(activities', dayWindow')
    /\ categoryTotals' = categoryTotalsOf(todaysActivities')
    /\ UNCHANGED <<activityVars, stringVars, dateVars, storageVars, refVars, modalVars>>

NextList == ListRefresh \/ ListTick

SpecList == InitList /\ [][NextList]_vars

\* --------------------------------------- the home screen and the modal
InitModal ==
    /\ now \in ModalInstants
    /\ settings \in ListSettings
    /\ Render(now, settings, sleeping, remaining, spent, dayWindow)
    /\ NoActivity
    /\ NoString
    /\ NoDate
    /\ NoStorage
    /\ NoReference
    /\ activities \in ModalLists
    /\ todaysActivities = todaysActivitiesOf(activities, dayWindow)
    /\ categoryTotals = categoryTotalsOf(todaysActivities)
    /\ NoModal

\* onAddPress and the reset effect of the modal for a new activity
onAddPress ==
    /\ ~visible
    /\ saves < MaxSaves
    /\ Len(activities) < MaxList
    /\ visible' = TRUE
    /\ initial' = <<>>
    /\ formEnd' = setTime(dayWindow.start, getHours(now), getMinutes(now))
    /\ formStart' = setTime(dayWindow.start, getHours(now - HourSecs),
                            getMinutes(now - HourSecs))
    /\ UNCHANGED <<saved, action, saves>>
    /\ UNCHANGED <<screenVars, activityVars, stringVars, dateVars, storageVars, refVars, listVars>>

\* onPress of a row of today's list and the reset effect for editing
onEditPress ==
    /\ ~visible
    /\ saves < MaxSaves
    /\ \E i \in 1..Len(todaysActivities) :
          /\ initial' = todaysActivities[i]
          /\ formStart' = parseISO(todaysActivities[i].startTime)
          /\ formEnd' = parseISO(todaysActivities[i].endTime)
    /\ visible' = TRUE
    /\ UNCHANGED <<saved, action, saves>>
    /\ UNCHANGED <<screenVars, activityVars, stringVars, dateVars, storageVars, refVars, listVars>>

\* onChange of the start picker
onChangeStart ==
    /\ visible
    /\ \E t \in PickTimes : formStart' = setTime(dayWindow.start, t[1], t[2])
    /\ UNCHANGED <<visible, initial, formEnd, saved, action, saves>>
    /\ UNCHANGED <<screenVars, activityVars, stringVars, dateVars, storageVars, refVars, listVars>>

\* onChange of the end picker
onChangeEnd ==
    /\ visible
    /\ \E t \in PickTimes : formEnd' = setTime(dayWindow.start, t[1], t[2])
    /\ UNCHANGED <<visible, initial, formStart, saved, action, saves>>
    /\ UNCHANGED <<screenVars, activityVars, stringVars, dateVars, storageVars, refVars, listVars>>

\* onClose
onClose ==
    /\ visible
    /\ visible' = FALSE
    /\ UNCHANGED <<initial, formStart, formEnd, saved, action, saves>>
    /\ UNCHANGED <<screenVars, activityVars, stringVars, dateVars, storageVars, refVars, listVars>>

\* HomeScreen.handleSave(activity): storage, refresh, close
Store(a) ==
    /\ saved' = a
    /\ saves' = saves + 1
    /\ activities' = IF initial # <<>> THEN updateActivity(activities, a)
                     ELSE addActivity(activities, a)
    /\ todaysActivities' = todaysActivitiesOf(activities', dayWindow)
    /\ categoryTotals' = categoryTotalsOf(todaysActivities')
    /\ visible' = FALSE

\* handleSave of the modal
handleSave ==
    /\ visible
    /\ \E a \in manualActivity(initial, formStart, formEnd, newId(activities)) :
          Store(a)
    /\ pc' = "manual"
    /\ UNCHANGED <<initial, formStart, formEnd, action>>
    /\ UNCHANGED <<startIso, endIso, dayStart, dayEnd, duration, overlaps>>
    /\ UNCHANGED <<screenVars, stringVars, dateVars, storageVars, refVars>>

\* handleQuickAction(actionId); the buttons show only for a new activity
handleQuickAction ==
    /\ visible
    /\ initial = <<>>
    /\ \E q \in QuickActionPool :
          /\ action' = q
          /\ \E a \in quickActivity(q, settings, dayWindow.start,
                                    newId(activities)) : Store(a)
    /\ pc' = "quick"
    /\ UNCHANGED <<initial, formStart, formEnd>>
    /\ UNCHANGED <<startIso, endIso, dayStart, dayEnd, duration, overlaps>>
    /\ UNCHANGED <<screenVars, stringVars, dateVars, storageVars, refVars>>

NextModal ==
    \/ onAddPress
    \/ onEditPress
    \/ onChangeStart
    \/ onChangeEnd
    \/ onClose
    \/ handleSave
    \/ handleQuickAction

SpecModal == InitModal /\ [][NextModal]_vars

\* --------------------------------------- storage calls of the home screen
InitStorage ==
    /\ now \in StorageInstants
    /\ settings = DefaultSettings
    /\ Render(now, settings, sleeping, remaining, spent, dayWindow)
    /\ NoActivity
    /\ NoString
    /\ NoDate
    /\ NoReference
    /\ NoModal
    /\ storedActivities \in StorageLists
    /\ storedSettings = settings
    /\ calls = [c \in Callers |-> NoCall]
    /\ activities = storedActivities
    /\ todaysActivities = todaysActivitiesOf(activities, dayWindow)
    /\ categoryTotals = categoryTotalsOf(todaysActivities)

\* loadActivities returns to the handler of caller c
Load(c, op, arg) ==
    /\ calls' = [calls EXCEPT ![c] = [op |-> op, arg |-> arg,
                                      pc |-> "loaded",
                                      list |-> storedActivities]]
    /\ UNCHANGED <<storedActivities, storedSettings>>
    /\ UNCHANGED <<screenVars, activityVars, stringVars, dateVars, refVars,
                   listVars, modalVars>>

\* handleSave of a new activity: addActivity up to its load
LoadAdd ==
    \E c \in Callers, a \in AddPool :
        /\ calls[c].pc = "idle"
        /\ Len(storedActivities) < MaxList
        /\ ~hasId(storedActivities, a.id)
        /\ \A d \in Callers : calls[d].op = "add" => calls[d].arg # a
        /\ Load(c, "add", a)

\* handleSave of an edited activity: updateActivity up to its load
LoadUpdate ==
    \E c \in Callers, a \in UpdatePool :
        /\ calls[c].pc = "idle"
        /\ Load(c, "update", a)

\* handleDelete: deleteActivity up to its load
LoadDelete ==
    \E c \in Callers, id \in StorageIds :
        /\ calls[c].pc = "idle"
        /\ Load(c, "delete", id)

\* Reset Today up to its load
LoadReset ==
    \E c \in Callers :
        /\ calls[c].pc = "idle"
        /\ Load(c, "reset", <<>>)

\* the rest of the handler: saveActivities (updateActivity writes only
\* when it has found the id), then refresh
Save ==
    \E c \in Callers :
        /\ calls[c].pc = "loaded"
        /\ storedActivities' =
               IF calls[c].op = "update"
                      /\ ~hasId(calls[c].list, calls[c].arg.id)
               THEN storedActivities
               ELSE written(calls[c].op, calls[c].arg, calls[c].list,
                            dayWindow.start)
        /\ calls' = [calls EXCEPT ![c].pc = "done"]
        /\ activities' = storedActivities'
        /\ todaysActivities' = todaysActivitiesOf(activities', dayWindow)
        /\ categoryTotals' = categoryTotalsOf(todaysActivities')
        /\ UNCHANGED storedSettings
        /\ UNCHANGED <<screenVars, activityVars, stringVars, dateVars,
                       refVars, modalVars>>

NextStorage ==
    \/ LoadAdd
    \/ LoadUpdate
    \/ LoadDelete
    \/ LoadReset
    \/ Save

SpecStorage == InitStorage /\ [][NextStorage]_vars

\* ----------------------------------- ensureDefaults and the settings screen
\* the app starts: ensureDefaults has not run, the settings screen has not
\* saved; storage holds settings of an earlier run or none
InitDefaults ==
    /\ now = newDate(1, 0, 0)
    /\ settings = DefaultSettings
    /\ Render(now, settings, sleeping, remaining, spent, dayWindow)
    /\ NoActivity
    /\ NoString
    /\ NoDate
    /\ NoReference
    /\ NoList
    /\ NoModal
    /\ storedActivities = <<>>
    /\ storedSettings \in {<<>>} \cup SettingsPool
    /\ calls = [ensureDefaults |-> [pc |-> "idle", settings |-> <<>>],
                persistSettings |-> [pc |-> "idle", next |-> <<>>]]

\* ensureDefaults up to the return of its Promise.all: loadSettings
EnsureLoad ==
    /\ calls.ensureDefaults.pc = "idle"
    /\ calls' = [calls EXCEPT !.ensureDefaults =
                     [pc |-> "loaded", settings |-> storedSettings]]
    /\ UNCHANGED <<storedActivities, storedSettings>>
    /\ UNCHANGED <<screenVars, activityVars, stringVars, dateVars, refVars,
                   listVars, modalVars>>

\* the rest of ensureDefaults: if (!settings) saveSettings(defaults)
EnsureSave ==
    /\ calls.ensureDefaults.pc = "loaded"
    /\ storedSettings' = IF calls.ensureDefaults.settings = <<>>
                         THEN DefaultSettings ELSE storedSettings
    /\ calls' = [calls EXCEPT !.ensureDefaults.pc = "done"]
    /\ UNCHANGED storedActivities
    /\ UNCHANGED <<screenVars, activityVars, stringVars, dateVars, refVars,
                   listVars, modalVars>>

\* persistSettings(next) of the settings screen: saveSettings(next)
PersistSettings ==
    /\ calls.persistSettings.pc = "idle"
    /\ \E next \in SettingsPool :
          /\ storedSettings' = next
          /\ calls' = [calls EXCEPT !.persistSettings =
                           [pc |-> "done", next |-> next]]
    /\ UNCHANGED storedActivities
    /\ UNCHANGED <<screenVars, activityVars, stringVars, dateVars, refVars,
                   listVars, modalVars>>

NextDefaults == EnsureLoad \/ EnsureSave \/ PersistSettings

SpecDefaults == InitDefaults /\ [][NextDefaults]_vars

\* ------------------------------------------------ toDateWithTime on its own
InitDate ==
    /\ now = newDate(1, 0, 0)
    /\ settings = DefaultSettings
    /\ Render(now, settings, sleeping, remaining, spent, dayWindow)
    /\ NoActivity
    /\ NoString
    /\ dateBase \in DateInstants
    /\ dateStr \in DateStrings
    /\ dateAnchor \in DateInstants
    /\ dateMade = 0
    /\ dateText = <<>>
    /\ dateRemade = 0
    /\ NoStorage
    /\ NoReference
    /\ NoList
    /\ NoModal

CallToDate ==
    /\ pc = "none"
    /\ dateMade' = toDateWithTime(dateBase, dateStr)
    /\ pc' = "made"
    /\ UNCHANGED <<dateBase, dateStr, dateAnchor, dateText, dateRemade>>
    /\ UNCHANGED <<startIso, endIso, dayStart, dayEnd, duration, overlaps>>
    /\ UNCHANGED <<screenVars, stringVars, refVars, listVars, modalVars,
                   storageVars>>

\* the way back: dateToHHmm, normalizeTime inside toDateWithTime
CallRoundTrip ==
    /\ pc = "made"
    /\ dateText' = dateToHHmm(dateMade)
    /\ dateRemade' = toDateWithTime(dateAnchor, normalizeTime(dateText'))
    /\ pc' = "remade"
    /\ UNCHANGED <<dateBase, dateStr, dateAnchor, dateMade>>
    /\ UNCHANGED <<startIso, endIso, dayStart, dayEnd, duration, overlaps>>
    /\ UNCHANGED <<screenVars, stringVars, refVars, listVars, modalVars,
                   storageVars>>

NextDate == CallToDate \/ CallRoundTrip

SpecDate == InitDate /\ [][NextDate]_vars

\* ------------------------------------------------- normalizeTime on its own
InitNormalize ==
    /\ now = newDate(1, 0, 0)
    /\ settings = DefaultSettings
    /\ Render(now, settings, sleeping, remaining, spent, dayWindow)
    /\ NoActivity
    /\ timeStr \in StringPool
    /\ normalized = <<>>
    /\ renormalized = <<>>
    /\ NoDate
    /\ NoStorage
    /\ NoReference
    /\ NoList
    /\ NoModal

CallNormalize ==
    /\ pc = "none"
    /\ normalized' = normalizeTime(timeStr)
    /\ pc' = "normalized"
    /\ UNCHANGED <<timeStr, renormalized>>
    /\ UNCHANGED <<startIso, endIso, dayStart, dayEnd, duration, overlaps>>
    /\ UNCHANGED <<screenVars, refVars, listVars, modalVars, dateVars, storageVars>>

CallNormalizeAgain ==
    /\ pc = "normalized"
    /\ renormalized' = normalizeTime(normalized)
    /\ pc' = "renormalized"
    /\ UNCHANGED <<timeStr, normalized>>
    /\ UNCHANGED <<startIso, endIso, dayStart, dayEnd, duration, overlaps>>
    /\ UNCHANGED <<screenVars, refVars, listVars, modalVars, dateVars, storageVars>>

NextNormalize == CallNormalize \/ CallNormalizeAgain

SpecNormalize == InitNormalize /\ [][NextNormalize]_vars

\* ------------------------------------- the time references on their own
InitReference ==
    /\ now = newDate(1, 0, 0)
    /\ settings \in SettingsPool
    /\ Render(now, settings, sleeping, remaining, spent, dayWindow)
    /\ NoActivity
    /\ NoString
    /\ NoDate
    /\ NoStorage
    /\ ref \in RefPool
    /\ baseDay \in AnchorInstants
    /\ tempBase \in AnchorInstants
    /\ resolved = 0
    /\ label = <<>>
    /\ NoList
    /\ NoModal

CallResolve ==
    /\ pc = "none"
    /\ resolved' = resolveTimeReference(ref, settings, baseDay)
    /\ pc' = "resolved"
    /\ UNCHANGED <<ref, baseDay, tempBase, label>>
    /\ UNCHANGED <<startIso, endIso, dayStart, dayEnd, duration, overlaps>>
    /\ UNCHANGED <<screenVars, stringVars, dateVars, storageVars, listVars, modalVars>>

CallFormat ==
    /\ pc = "none"
    /\ label' = formatTimeReference(ref, settings, tempBase)
    /\ pc' = "formatted"
    /\ UNCHANGED <<ref, baseDay, tempBase, resolved>>
    /\ UNCHANGED <<startIso, endIso, dayStart, dayEnd, duration, overlaps>>
    /\ UNCHANGED <<screenVars, stringVars, dateVars, storageVars, listVars, modalVars>>

NextReference == CallResolve \/ CallFormat

SpecReference == InitReference /\ [][NextReference]_vars

\* ------------------------------------------------- vocabulary of the claims
\* an "HH:MM" or "H:MM" string with hours 0-23 and minutes 0-59
ValidTime(t) ==
    /\ matchTime(t)
    /\ parseInt(SubSeq(t, 1, Len(t) - 3)) <= 23
    /\ parseInt(SubSeq(t, Len(t) - 1, Len(t))) <= 59
ValidSettings == ValidTime(settings.bedtime) /\ ValidTime(settings.wakeTime)
\* a wall-clock string as minutes since midnight
MinutesOf(t) == toDateWithTime(0, t) \div MinuteSecs
BedMins == MinutesOf(settings.bedtime)
WakeMins == MinutesOf(settings.wakeTime)
\* now as minutes since midnight, and as seconds since midnight
NowMins == (now % DaySecs) \div MinuteSecs
NowSecs == now % DaySecs
AtBedtimeInstant == NowSecs = BedMins * MinuteSecs
AtWakeInstant == NowSecs = WakeMins * MinuteSecs
\* today's wake instant, and the latest wake instant at or before now
TodayWake == (now - NowSecs) + WakeMins * MinuteSecs
MostRecentWake == IF now >= TodayWake THEN TodayWake ELSE TodayWake - DaySecs
\* minutes from a wake time to the first bedtime after it: 1 .. 1440
WakingMinutes == ((BedMins - WakeMins - 1) % 1440) + 1
\* h is x seconds, as hours rounded to hundredths
IsRounded(h, x) == 36 * h - x <= 18 /\ x - 36 * h <= 18
Is2300_0700 == settings = [bedtime |-> T2300, wakeTime |-> T0700]

\* ----------------------------------------------------------------- claims

\* C1: for valid settings the day window contains now, start <= now < end,
\* and when now is exactly a bedtime instant the window starts at now.
C1_DayWindowContainsNow ==
    ValidSettings =>
        /\ dayWindow.start <= now
        /\ now < dayWindow.end
        /\ AtBedtimeInstant => dayWindow.start = now
C1_Witness == ValidSettings /\ AtBedtimeInstant /\ dayWindow.start = now

\* C2: the sleep test is the two-case rule on minutes since midnight:
\* bedMins < wakeMins: asleep iff bedMins <= nowMins < wakeMins; otherwise
\* asleep iff nowMins >= bedMins or nowMins < wakeMins.
C2_SleepRule ==
    ValidSettings =>
        sleeping = IF BedMins < WakeMins
                   THEN BedMins <= NowMins /\ NowMins < WakeMins
                   ELSE NowMins >= BedMins \/ NowMins < WakeMins
C2_Witness ==
    /\ ValidSettings /\ BedMins < WakeMins /\ sleeping
    /\ NowMins > BedMins

\* C3 as stated: for every valid settings record, bedtime equal to wake time
\* included, asleep at the bedtime minute and awake at the wake minute.
C3_Original ==
    ValidSettings =>
        /\ NowMins = BedMins => sleeping
        /\ NowMins = WakeMins => ~sleeping
\* C3 amended: asleep at the bedtime minute always; awake at the wake minute
\* when bedtime differs from wake time; when they are equal the user is
\* asleep at every instant, the wake minute included.
C3_Boundaries ==
    ValidSettings =>
        /\ NowMins = BedMins => sleeping
        /\ (NowMins = WakeMins /\ BedMins # WakeMins) => ~sleeping
        /\ BedMins = WakeMins => sleeping
C3_Witness ==
    /\ ValidSettings /\ NowMins = WakeMins /\ BedMins # WakeMins
    /\ ~sleeping

\* C4: remaining is the hours from now to getNextBedtime(now, settings),
\* never negative, rounded to hundredths; with 23:00 / 07:00 it is 13.50
\* at 09:30 and 21.00 at 02:00.
C4_Remaining ==
    ValidSettings =>
        /\ remaining >= 0
        /\ getNextBedtime(now, settings) > now
        /\ IsRounded(remaining, getNextBedtime(now, settings) - now)
        /\ (Is2300_0700 /\ NowSecs = 9 * HourSecs + 30 * MinuteSecs)
               => remaining = 1350
        /\ (Is2300_0700 /\ NowSecs = 2 * HourSecs) => remaining = 2100
C4_Witness ==
    Is2300_0700 /\ NowSecs = 9 * HourSecs + 30 * MinuteSecs
        /\ remaining = 1350

\* C5: spent is the hours from the most recent wake instant to now (today's
\* wake instant if now is at or past it, yesterday's otherwise), never
\* negative, rounded to hundredths; with 23:00 / 07:00 at 09:30 it is 2.50.
C5_Spent ==
    ValidSettings =>
        /\ spent >= 0
        /\ getMostRecentWake(now, settings) = MostRecentWake
        /\ IsRounded(spent, now - MostRecentWake)
        /\ (Is2300_0700 /\ NowSecs = 9 * HourSecs + 30 * MinuteSecs)
               => spent = 250
C5_Witness ==
    Is2300_0700 /\ NowSecs = 9 * HourSecs + 30 * MinuteSecs /\ spent = 250

\* C6 as stated: with 23:00 / 07:00 at day 2, 02:00 the user is asleep, the
\* day window is [day 1 23:00, day 2 23:00) and spent is 0; while the user
\* is asleep spent is 0.
C6_Original ==
    /\ (Is2300_0700 /\ now = newDate(2, 2, 0)) =>
           /\ sleeping
           /\ dayWindow = [start |-> newDate(1, 23, 0),
                           end |-> newDate(2, 23, 0)]
           /\ spent = 0
    /\ (ValidSettings /\ sleeping) => spent = 0
\* C6 amended: in that scenario the user is asleep, the window is as stated
\* and spent is 19.00; while the user is asleep spent is the hours since the
\* most recent wake instant, at least the length of the waking period that
\* went before, not 0.
C6_SpentWhileAsleep ==
    /\ (Is2300_0700 /\ now = newDate(2, 2, 0)) =>
           /\ sleeping
           /\ dayWindow = [start |-> newDate(1, 23, 0),
                           end |-> newDate(2, 23, 0)]
           /\ spent = 1900
    /\ (ValidSettings /\ sleeping) =>
           /\ IsRounded(spent, now - MostRecentWake)
           /\ now - MostRecentWake >= (WakingMinutes % 1440) * MinuteSecs
C6_Witness ==
    Is2300_0700 /\ now = newDate(2, 2, 0) /\ sleeping /\ spent = 1900

C7_AtWake ==
    (ValidSettings /\ AtWakeInstant) =>
        /\ IsRounded(remaining, WakingMinutes * MinuteSecs)
        /\ WakingMinutes = 16 * 60 => remaining = 1600
C7_AtBedtime ==
    ValidSettings =>
        /\ (dayWindow.end - now < 18) => remaining = 0
        /\ AtBedtimeInstant => remaining = 2400
C7_PerHour ==
    (/\ ValidSettings
     /\ settings' = settings
     /\ dayWindow' = dayWindow
     /\ ~sleeping
     /\ ~sleeping') =>
        /\ 36 * (remaining - remaining') - (now' - now) <= 36
        /\ (now' - now) - 36 * (remaining - remaining') <= 36
        /\ (now' - now = HourSecs /\ (dayWindow.end - now) % 36 # 18)
               => remaining' = remaining - 100
StartInstant == parseISO(startIso)
EndInstant == parseISO(endIso)
CorrectedEnd ==
    IF EndInstant < StartInstant THEN EndInstant + DaySecs ELSE EndInstant

\* C8 as stated: the duration is >= 0 for all pairs of instants.
C8_Original == pc = "duration" => duration >= 0
\* C8 amended: the duration is >= 0 exactly when end is not more than 24
\* hours before start; an end more than 24 hours before start gives a
\* negative duration.
C8_NonNegative ==
    pc = "duration" =>
        (duration >= 0 <=> EndInstant + DaySecs >= StartInstant)
C8_Witness ==
    pc = "duration" /\ EndInstant < StartInstant /\ duration >= 0

\* C9: the duration is end - start when end >= start and end + 24h - start
\* when end < start, nothing else; 22:30 to 00:15 of the same date is 1.75.
C9_Duration ==
    pc = "duration" =>
        /\ EndInstant >= StartInstant => duration = EndInstant - StartInstant
        /\ EndInstant < StartInstant
               => duration = EndInstant + DaySecs - StartInstant
        /\ (startIso = [day |-> 2, h |-> 22, m |-> 30, s |-> 0]
              /\ endIso = [day |-> 2, h |-> 0, m |-> 15, s |-> 0])
               => 100 * duration = 175 * HourSecs
C9_Witness ==
    /\ pc = "duration"
    /\ startIso = [day |-> 2, h |-> 22, m |-> 30, s |-> 0]
    /\ endIso = [day |-> 2, h |-> 0, m |-> 15, s |-> 0]
    /\ 100 * duration = 175 * HourSecs

\* C10: overlap iff start < windowEnd and correctedEnd > windowStart; a
\* corrected end equal to windowStart, or a start equal to windowEnd, does
\* not overlap; [22:45, 23:30) overlaps the window ending at 23:00 that day.
C10_Overlap ==
    pc = "overlaps" =>
        /\ overlaps = (StartInstant < dayEnd /\ CorrectedEnd > dayStart)
        /\ CorrectedEnd = dayStart => ~overlaps
        /\ StartInstant = dayEnd => ~overlaps
        /\ (/\ startIso = [day |-> 2, h |-> 22, m |-> 45, s |-> 0]
            /\ endIso = [day |-> 2, h |-> 23, m |-> 30, s |-> 0]
            /\ dayStart = newDate(1, 23, 0)
            /\ dayEnd = newDate(2, 23, 0)) => overlaps
C10_Witness ==
    /\ pc = "overlaps"
    /\ startIso = [day |-> 2, h |-> 22, m |-> 45, s |-> 0]
    /\ endIso = [day |-> 2, h |-> 23, m |-> 30, s |-> 0]
    /\ dayStart = newDate(1, 23, 0)
    /\ dayEnd = newDate(2, 23, 0)
    /\ overlaps

\* every instant whose wall-clock time is the bedtime
IsBedtimeInstant(t) == t % DaySecs = BedMins * MinuteSecs
BedtimeInstants ==
    {day * DaySecs + BedMins * MinuteSecs : day \in 0..(MaxDay + 1)}

\* C16: at any second of a minute and for valid settings, the window start
\* (getMostRecentBedtime) is the latest bedtime instant <= now and the
\* window end (getNextBedtime) is the earliest bedtime instant > now.
C16_NearestBedtimes ==
    ValidSettings =>
        /\ dayWindow.start \in BedtimeInstants
        /\ dayWindow.start <= now
        /\ \A b \in BedtimeInstants : b <= now => b <= dayWindow.start
        /\ dayWindow.end \in BedtimeInstants
        /\ dayWindow.end > now
        /\ \A b \in BedtimeInstants : b > now => b >= dayWindow.end
C16_Witness ==
    /\ ValidSettings
    /\ NowMins = BedMins
    /\ now % MinuteSecs # 0
    /\ dayWindow.start = now - (now % MinuteSecs)
    /\ dayWindow.end = dayWindow.start + DaySecs

\* C17: as now advances under unchanged valid settings, every day window
\* runs from one bedtime instant to the next, 24 hours later; the window
\* stays the same unless a bedtime instant lies in (now, now']; and when it
\* changes, the new window starts where the previous one ended.
C17_WindowShape ==
    ValidSettings =>
        /\ IsBedtimeInstant(dayWindow.start)
        /\ dayWindow.end = dayWindow.start + DaySecs
C17_Step ==
    (ValidSettings /\ settings' = settings /\ now' >= now) =>
        /\ (\A b \in BedtimeInstants : ~(now < b /\ b <= now'))
               => dayWindow' = dayWindow
        /\ dayWindow' # dayWindow =>
               /\ dayWindow'.start = dayWindow.end
               /\ now < dayWindow'.start
               /\ dayWindow'.start <= now'
C17_Partition == []C17_WindowShape /\ [][C17_Step]_vars
C17_Witness ==
    /\ ValidSettings
    /\ AtBedtimeInstant
    /\ dayWindow = [start |-> now, end |-> now + DaySecs]
    /\ now > newDate(1, 23, 0)

\* the zero-padded and the unpadded spelling of h hours m minutes
HHMM(h, m) ==
    <<DigitChars[(h \div 10) + 1], DigitChars[(h % 10) + 1], ":",
      DigitChars[(m \div 10) + 1], DigitChars[(m % 10) + 1]>>
HMM(h, m) ==
    <<DigitChars[h + 1], ":",
      DigitChars[(m \div 10) + 1], DigitChars[(m % 10) + 1]>>
\* every valid input paired with the string normalizeTime is to return
Canonical ==
    {<<HHMM(h, m), HHMM(h, m)>> : h \in 0..23, m \in 0..59}
        \cup {<<HMM(h, m), HHMM(h, m)>> : h \in 0..9, m \in 0..59}
ValidInputs == {p[1] : p \in Canonical}

\* C20: normalizeTime returns the zero-padded HH:MM string for H:MM and
\* HH:MM input with hours 0-23 and minutes 0-59 and "00:00" for every other
\* string, and applying it to its own result returns that result.
C20_Normalize ==
    /\ pc \in {"normalized", "renormalized"} =>
           /\ timeStr \in ValidInputs => <<timeStr, normalized>> \in Canonical
           /\ timeStr \notin ValidInputs => normalized = T0000
    /\ pc = "renormalized" => renormalized = normalized
C20_Witness ==
    /\ pc = "renormalized"
    /\ timeStr = T700
    /\ normalized = T0700
    /\ renormalized = T0700

\* settings with every string that normalizeTime maps to "00:00" replaced
\* by the literal "00:00"
Defaulted(t) == IF normalizeTime(t) = T0000 THEN T0000 ELSE t
DefaultedSettings ==
    [bedtime |-> Defaulted(settings.bedtime),
     wakeTime |-> Defaulted(settings.wakeTime)]

\* C15: with a bedtime or wake string that normalizeTime maps to "00:00",
\* every engine function returns what it returns for the literal "00:00",
\* and the day window still contains now.
C15_MalformedAsMidnight ==
    DefaultedSettings # settings =>
        /\ sleeping = isInSleepWindow(now, DefaultedSettings)
        /\ dayWindow.start = getMostRecentBedtime(now, DefaultedSettings)
        /\ dayWindow.end = getNextBedtime(now, DefaultedSettings)
        /\ remaining \in computeRemainingDollars(now, DefaultedSettings)
        /\ spent \in computeSpentDollars(now, DefaultedSettings)
        /\ dayWindow.start <= now
        /\ now < dayWindow.end

\* local midnight of the anchor's calendar date
AnchorMidnight == baseDay - (baseDay % DaySecs)
\* the reference as seconds after the midnight of its anchor date
RefSeconds ==
    CASE ref.type = "bedtime" -> BedMins * MinuteSecs
      [] ref.type = "wakeTime" -> WakeMins * MinuteSecs
      [] ref.type = "offset" -> (WakeMins + ref.minutes) * MinuteSecs

\* C18: a bedtime reference resolves to the bedtime on the anchor's calendar
\* date, a wakeTime reference to the wake time on that date, an offset
\* reference to that wake instant plus ref.minutes minutes, unclamped.
C18_Resolve ==
    pc = "resolved" => resolved = AnchorMidnight + RefSeconds
C18_Witness ==
    /\ pc = "resolved"
    /\ ref = [type |-> "offset", minutes |-> 1500]
    /\ baseDay % DaySecs # 0
    /\ resolved = AnchorMidnight + (WakeMins + 1500) * MinuteSecs
    /\ resolved > AnchorMidnight + DaySecs

\* hour h (0-23) and minute m as "h:mm" on the 12 hour clock with am / pm
Clock12(h, m) ==
    LET h12 == IF h % 12 = 0 THEN 12 ELSE h % 12
    IN  (IF h12 >= 10 THEN <<"1">> ELSE <<>>)
            \o <<DigitChars[(h12 % 10) + 1], ":",
                 DigitChars[(m \div 10) + 1], DigitChars[(m % 10) + 1],
                 IF h >= 12 THEN "p" ELSE "a", "m">>

Entries(list) == {list[i] : i \in 1..Len(list)}
StartOf(a) == parseISO(a.startTime)

\* C11: today's list holds exactly the stored activities that
\* overlapsDayWindow accepts for the current day window, each once.
C11_TodayIsOverlap ==
    ValidSettings =>
        /\ Entries(todaysActivities) =
               {a \in Entries(activities) :
                   overlapsDayWindow(a.startTime, a.endTime,
                                     dayWindow.start, dayWindow.end)}
        /\ Len(todaysActivities) = Cardinality(Entries(todaysActivities))
C11_Witness ==
    /\ ValidSettings
    /\ Len(todaysActivities) = 1
    /\ Len(activities) = 2
    /\ parseISO(todaysActivities[1].endTime) < StartOf(todaysActivities[1])
    /\ dayWindow.start > StartOf(todaysActivities[1])

\* C12 as stated: today's list is in ascending order of startTime.
C12_Original ==
    \A i \in 1..(Len(todaysActivities) - 1) :
        StartOf(todaysActivities[i]) <= StartOf(todaysActivities[i + 1])
\* C12 amended: today's list is in descending order of startTime, newest
\* first: for adjacent entries x before y, x.startTime >= y.startTime.
C12_NewestFirst ==
    \A i \in 1..(Len(todaysActivities) - 1) :
        StartOf(todaysActivities[i]) >= StartOf(todaysActivities[i + 1])
C12_Witness ==
    /\ Len(todaysActivities) >= 2
    /\ Len(activities) = Len(todaysActivities)
    /\ StartOf(activities[1]) < StartOf(activities[2])
    /\ StartOf(todaysActivities[1]) > StartOf(todaysActivities[2])

\* the wrap-corrected duration of a stored activity, as the hundredths of
\* an hour it can round to
RoundedDuration(a) ==
    round2(durationHoursAcrossMidnight(a.startTime, a.endTime))

\* C13: every activity handed to storage, by handleSave or by
\* handleQuickAction, has cost equal to the wrap-corrected duration of
\* [startTime, endTime) in hours rounded to 2 decimal places.
C13_CostIsRoundedDuration ==
    saved # <<>> => \E h \in RoundedDuration(saved) : saved.cost = 36 * h

\* the instants the pressed quick action resolves to on the anchor date
QuickStart == resolveTimeReference(action.startTime, settings, dayWindow.start)
QuickEnd == resolveTimeReference(action.endTime, settings, dayWindow.start)
OnAnchorDate(d) == getDay(d) = getDay(dayWindow.start)
\* what manual entry stores for the wall-clock times of the quick action
ManualTwin ==
    manualActivity(<<>>,
                   setTime(dayWindow.start, getHours(QuickStart),
                           getMinutes(QuickStart)),
                   setTime(dayWindow.start, getHours(QuickEnd),
                           getMinutes(QuickEnd)),
                   saved.id)
SameTimesAsManual ==
    \A m \in ManualTwin :
        saved.startTime = m.startTime /\ saved.endTime = m.endTime

\* C14 as stated: a preset stores the same startTime and endTime as manual
\* entry of the same start and end wall-clock times.
C14_Original == pc = "quick" => SameTimesAsManual
\* C14 amended: a preset stores its resolved start, and its resolved end
\* plus 24 hours iff the end precedes the start.
C14_QuickPolicy ==
    pc = "quick" =>
        /\ saved.startTime = toISOString(QuickStart)
        /\ saved.endTime =
               toISOString(IF QuickEnd < QuickStart THEN QuickEnd + DaySecs
                           ELSE QuickEnd)
\* C14 amended: manual entry stores the form's start, and the form's end
\* plus 24 hours iff the end precedes the start.
C14_ManualStep ==
    handleSave =>
        /\ saved'.startTime = toISOString(formStart)
        /\ saved'.endTime =
               toISOString(IF formEnd < formStart THEN formEnd + DaySecs
                           ELSE formEnd)
\* C14 amended: when both references of the preset resolve to instants on
\* the anchor's calendar date, the preset stores the same startTime and
\* endTime as manual entry of the same wall-clock times.
C14_SameOnAnchorDate ==
    (pc = "quick" /\ OnAnchorDate(QuickStart) /\ OnAnchorDate(QuickEnd))
        => SameTimesAsManual
\* C14 amended: the three parts together.
C14_SamePolicy ==
    /\ [](C14_QuickPolicy /\ C14_SameOnAnchorDate)
    /\ [][C14_ManualStep]_vars
C14_Witness ==
    /\ pc = "quick"
    /\ OnAnchorDate(QuickStart)
    /\ OnAnchorDate(QuickEnd)
    /\ QuickEnd < QuickStart
    /\ parseISO(saved.endTime) = QuickEnd + DaySecs

\* C21: toDateWithTime(base, hhmm) is base's calendar date at the hour and
\* minute of hhmm with zero seconds, whatever base's time of day; and
\* formatting it as HH:MM, normalizing and calling toDateWithTime on any
\* anchor gives the same wall-clock time on the anchor's date.
C21_ToDate ==
    /\ pc \in {"made", "remade"} =>
          \A h \in 0..23, m \in 0..59 :
              (dateStr = HHMM(h, m) \/ (h <= 9 /\ dateStr = HMM(h, m))) =>
                  dateMade = getDay(dateBase) * DaySecs
                                 + h * HourSecs + m * MinuteSecs
    /\ pc = "remade" =>
          /\ dateRemade % DaySecs = dateMade % DaySecs
          /\ dateRemade % MinuteSecs = 0
          /\ getDay(dateRemade) = getDay(dateAnchor)
C21_Witness ==
    /\ pc = "remade"
    /\ dateStr = T905
    /\ dateBase % MinuteSecs # 0
    /\ getDay(dateAnchor) # getDay(dateBase)
    /\ dateAnchor % DaySecs # dateBase % DaySecs
    /\ dateRemade % DaySecs = 9 * HourSecs + 5 * MinuteSecs

\* the sum of the cost of the entries of list that are of category c
RECURSIVE CostSum(_, _)
CostSum(list, c) ==
    IF Len(list) = 0 THEN 0
    ELSE (IF Head(list).categoryType = c THEN Head(list).cost ELSE 0)
             + CostSum(Tail(list), c)

\* C22: for each category type the total shown is the sum of the stored
\* cost of exactly the activities of that type in today's list, and 0 for
\* a category with no activity in the list.
C22_CategoryTotals ==
    /\ DOMAIN categoryTotals = {"good", "bad", "selfcare"}
    /\ \A c \in {"good", "bad", "selfcare"} :
          /\ categoryTotals[c] = CostSum(todaysActivities, c)
          /\ (\A i \in 1..Len(todaysActivities) :
                  todaysActivities[i].categoryType # c)
                 => categoryTotals[c] = 0
C22_Witness ==
    /\ Len(activities) = 2
    /\ activities[1].categoryType = activities[2].categoryType
    /\ Len(todaysActivities) = 1
    /\ todaysActivities[1].cost > 0
    /\ categoryTotals[todaysActivities[1].categoryType]
           = todaysActivities[1].cost
    /\ categoryTotals["bad"] = 0

\* the times the add form opens with: now's wall-clock time and one hour
\* earlier, on the calendar date of baseDay
DefaultEnd == setTime(dayWindow.start, getHours(now), getMinutes(now))
DefaultStart ==
    setTime(dayWindow.start, getHours(now - HourSecs),
            getMinutes(now - HourSecs))
SavedWithDefaults ==
    /\ pc = "manual"
    /\ initial = <<>>
    /\ formStart = DefaultStart
    /\ formEnd = DefaultEnd
SavedOverlapsToday ==
    overlapsDayWindow(saved.startTime, saved.endTime,
                      dayWindow.start, dayWindow.end)

\* C23: an activity saved from the add form with its default times
\* overlaps the current day window and is in today's list after the save.
C23_DefaultsShown ==
    (ValidSettings /\ SavedWithDefaults) =>
        /\ SavedOverlapsToday
        /\ saved \in Entries(todaysActivities)

\* C24: the activity created by handleQuickAction has endTime >= startTime,
\* overlaps the current day window and is in today's list.
C24_PresetShown ==
    (ValidSettings /\ pc = "quick") =>
        /\ parseISO(saved.endTime) >= parseISO(saved.startTime)
        /\ SavedOverlapsToday
        /\ saved \in Entries(todaysActivities)

\* every storage call has returned
AllDone == \A c \in Callers : calls[c].pc = "done"
Overlaps(a) ==
    overlapsDayWindow(a.startTime, a.endTime, dayWindow.start, dayWindow.end)

\* C25: when storage calls ran interleaved and all have completed, every
\* activity handed to addActivity is in the stored list (none of the other
\* calls being a Reset Today, which may remove it).
C25_NoLostUpdate ==
    (AllDone /\ \A d \in Callers : calls[d].op # "reset") =>
        \A c \in Callers :
            calls[c].op = "add" => calls[c].arg \in Entries(storedActivities)

\* C28: after a Reset Today that ran alone no stored activity overlaps the
\* current day window, today's list is empty, and every activity that was
\* stored and does not overlap the window is still stored.
C28_ResetToday ==
    \A c \in Callers :
        (/\ calls[c].op = "reset"
         /\ calls[c].pc = "done"
         /\ \A d \in Callers \ {c} : calls[d].pc = "idle")
        => /\ \A a \in Entries(storedActivities) : ~Overlaps(a)
           /\ todaysActivities = <<>>
           /\ \A a \in Entries(calls[c].list) :
                  ~Overlaps(a) => a \in Entries(storedActivities)

\* the save step of caller c, and whether nothing was written since its load
SaveStep(c) == calls[c].pc = "loaded" /\ calls'[c].pc = "done"
Sequential(c) == calls[c].list = storedActivities
Pos(list, a) == CHOOSE i \in 1..Len(list) : list[i] = a
InOrderOf(new, old) ==
    \A i, j \in 1..Len(new) : i < j => Pos(old, new[i]) < Pos(old, new[j])
FrameOf(op, arg, old, new) ==
    CASE op = "add" ->
            /\ Len(new) = Len(old) + 1
            /\ SubSeq(new, 1, Len(old)) = old
            /\ new[Len(new)] = arg
      [] op = "update" ->
            /\ Len(new) = Len(old)
            /\ \A i \in 1..Len(old) :
                  new[i] = IF old[i].id = arg.id THEN arg ELSE old[i]
      [] op = "delete" ->
            /\ Entries(new) = {a \in Entries(old) : a.id # arg}
            /\ Len(new) = Cardinality(Entries(new))
            /\ InOrderOf(new, old)
      [] op = "reset" -> TRUE

\* C29: in a sequential run addActivity appends one entry and leaves the
\* others unchanged, updateActivity replaces the entry of a stored id in
\* place and writes nothing for an id that is not stored, and
\* deleteActivity removes exactly the entries with the id, in order.
C29_FrameStep ==
    \A c \in Callers :
        SaveStep(c) =>
            /\ Sequential(c) =>
                  FrameOf(calls[c].op, calls[c].arg,
                          storedActivities, storedActivities')
            /\ (calls[c].op = "update"
                    /\ \A i \in 1..Len(calls[c].list) :
                           calls[c].list[i].id # calls[c].arg.id)
                   => storedActivities' = storedActivities
C29_Frame == [][C29_FrameStep]_vars
C29_Witness ==
    \E c \in Callers :
        /\ AllDone
        /\ calls[c].op = "update"
        /\ Len(calls[c].list) = 2
        /\ calls[c].list[1].id = calls[c].arg.id
        /\ calls[c].list # storedActivities
        /\ storedActivities[1] = calls[c].arg
        /\ storedActivities[2] = calls[c].list[2]

\* C30: ensureDefaults never replaces settings written by saveSettings:
\* once ensureDefaults and the save of the settings screen have both
\* completed, in whatever order their steps ran, the stored settings are
\* the ones the user saved.
C30_UserSettingsKept ==
    (calls.ensureDefaults.pc = "done" /\ calls.persistSettings.pc = "done")
        => storedSettings = calls.persistSettings.next

\* the length of the waking period, wake time to next bedtime, in seconds
WakingSecs == WakingMinutes * MinuteSecs
Awake == ValidSettings /\ BedMins # WakeMins /\ ~sleeping

\* C26 as stated: while the user is awake and bedtime differs from wake
\* time, spent plus remaining is the length of the waking period to within
\* 0.01, and remaining never exceeds that length.
C26_Original ==
    Awake =>
        /\ 36 * (spent + remaining) - WakingSecs <= 36
        /\ WakingSecs - 36 * (spent + remaining) <= 36
        /\ 36 * remaining <= WakingSecs
\* C26 amended: spent plus remaining is the length of the waking period to
\* within 0.01, and remaining never exceeds that length rounded to 2
\* decimal places.
C26_SpentPlusRemaining ==
    Awake =>
        /\ 36 * (spent + remaining) - WakingSecs <= 36
        /\ WakingSecs - 36 * (spent + remaining) <= 36
        /\ \E h \in round2(WakingSecs) : remaining <= h
C26_Witness ==
    /\ Awake
    /\ spent = 0
    /\ 36 * remaining > WakingSecs
    /\ 36 * remaining - WakingSecs <= 18

\* the first wake instant at or after instant t
FirstWakeFrom(t) == t + ((WakeMins * MinuteSecs - t) % DaySecs)

\* C27: with bedtime different from wake time, isInSleepWindow(now) is true
\* iff now is earlier than the first wake instant at or after the day
\* window's start: a window is one sleep period, then one waking period.
C27_SleepThenWake ==
    (ValidSettings /\ BedMins # WakeMins) =>
        /\ sleeping <=> now < FirstWakeFrom(dayWindow.start)
        /\ FirstWakeFrom(dayWindow.start) > dayWindow.start
        /\ FirstWakeFrom(dayWindow.start) < dayWindow.end
C27_Witness ==
    /\ ValidSettings
    /\ BedMins > WakeMins
    /\ sleeping
    /\ getDay(now) # getDay(dayWindow.start)
    /\ now + MinuteSecs >= FirstWakeFrom(dayWindow.start)

====
